---- MODULE Spec2Model ----
(***************************************************************************)
(* Portfolio optimization service (src/main.py).                           *)
(*                                                                         *)
(* One request to POST /optimize-portfolio is modelled from its form       *)
(* fields and uploaded file to its HTTP response.                          *)
(*                                                                         *)
(* Arithmetic.  Weights are fixed-point integers: Scale units make the     *)
(* weight 1.0 and Quantum units make 0.0001, the last decimal np.round     *)
(* keeps.  Rounded weights are integers counting 0.0001.  Returns are      *)
(* small integers in an arbitrary return unit and risk_level is an         *)
(* integer in that same unit.  Means and covariances are kept as exact     *)
(* fractions.                                                              *)
(***************************************************************************)
EXTENDS Integers, Sequences, FiniteSets, TLC

\* ---------------------------------------------------------------- bounds
\* Largest asset count for which every grid weight vector is enumerated.
MaxAssets == 3

\* Column count of the one wide upload (enough assets for the dropped
\* weights to add up to more than the sum tolerance).
WideAssets == 80

\* ------------------------------------------------------ program constants
\* np.round(optimal_weights, 4)
Decimals == 4

\* `if weight > 0.0001`, in units of 0.0001
MinWeight == 1

\* `abs(weight_sum - 1.0) > 0.01`, in units of 0.0001
SumTolerance == 100

\* `len(returns_df) < 30`
MinRows == 30

\* ------------------------------------------------------------ fixed point
\* Weight units per 0.0001: halves (rounding ties) and thirds (1/3).
Quantum == 2 * 3

\* Weight units of the weight 1.0.
Scale == Quantum * (10 ^ Decimals)

\* Limb base of the exact comparison in risk_constraint.
Limb == 10 ^ 3

Abs(a) == IF a < 0 THEN -a ELSE a

Min(a, b) == IF a <= b THEN a ELSE b

RECURSIVE Gcd(_, _)
Gcd(a, b) == IF b = 0 THEN a ELSE Gcd(b, a % b)

Lcm(a, b) == (a \div Gcd(a, b)) * b

RECURSIVE SumRange(_, _, _)
\* f[lo] + ... + f[hi], by halving
SumRange(f, lo, hi) ==
    IF lo > hi THEN 0
    ELSE IF lo = hi THEN f[lo]
    ELSE LET mid == (lo + hi) \div 2
         IN  SumRange(f, lo, mid) + SumRange(f, mid + 1, hi)

\* f[1] + ... + f[n]
SumTo(f, n) == SumRange(f, 1, n)

RECURSIVE LcmRange(_, _, _)
\* least common multiple of f[lo], ..., f[hi], by halving
LcmRange(f, lo, hi) ==
    IF lo > hi THEN 1
    ELSE IF lo = hi THEN f[lo]
    ELSE LET mid == (lo + hi) \div 2
         IN  Lcm(LcmRange(f, lo, mid), LcmRange(f, mid + 1, hi))

\* least common multiple of f[1], ..., f[n]
LcmTo(f, n) == LcmRange(f, 1, n)

\* ------------------------------------------------------------ the upload
NoDefect == [kind |-> "none", row |-> 0, col |-> 0]

\* A defect replaces one cell (col > 0) or one whole row of cells (col = 0).
Defect(kind, row, col) == [kind |-> kind, row |-> row, col |-> col]

Csv(nrows, ncols, dataset, defect) ==
    [kind |-> "csv", nrows |-> nrows, ncols |-> ncols, dataset |-> dataset, defect |-> defect]

Broken(kind) ==
    [kind |-> kind, nrows |-> 0, ncols |-> 0, dataset |-> 1, defect |-> NoDefect]

\* Daily return of column c on day r.  Dataset 1: square waves of
\* amplitude 2 and periods 2, 4, 8, 16 (volatile, nearly uncorrelated).
\* Dataset 2: a return of 1 every (c+1)-th day (calm, means differ).
Pattern(dataset, c, r) ==
    LET p == ((c - 1) % 4) + 1
    IN  IF dataset = 1
        THEN IF ((r - 1) \div (2 ^ (p - 1))) % 2 = 0 THEN 2 ELSE -2
        ELSE IF r % (p + 1) = 0 THEN 1 ELSE 0

Num(v) == [k |-> "num", v |-> v]

Special(kind) == [k |-> kind, v |-> 0]

Ticker(c) == "T" \o ToString(c)

Files ==
    {Broken("undecodable"), Broken("malformed"), Broken("empty")}
    \cup {Csv(MinRows, n, d, NoDefect) : n \in 1..MaxAssets, d \in {1, 2}}
    \cup {Csv(MinRows + 1, 2, 1, NoDefect), Csv(MinRows, 0, 1, NoDefect)}
    \cup {Csv(10, 2, 1, NoDefect), Csv(MinRows - 1, 1, 2, NoDefect)}
    \cup {Csv(MinRows, n, 1, Defect("nan", 3, 0)) : n \in {1, 2}}
    \cup {Csv(MinRows, 2, 1, Defect(k, 3, 2)) : k \in {"inf", "text"}}
    \cup {Csv(10, 2, 1, Defect("text", 1, 1)), Csv(10, 1, 2, Defect("nan", 2, 0))}

\* The wide upload: many assets, calm returns.
WideFile == Csv(MinRows, WideAssets, 2, NoDefect)

RiskLevels == {-1, 0, 1, 2, 3}

MaxWeights ==
    {-Quantum, 0, Scale + 1, Scale, Scale \div 2, Scale \div 3, (Scale \div 3) + 2,
     (2 * Scale) \div 5}

\* The requests tried: every combination of the values above, and the wide
\* upload with no cap and with the cap 1/n (floored to a weight unit).
Requests ==
    {[risk |-> r, maxw |-> w, file |-> f] : r \in RiskLevels, w \in MaxWeights, f \in Files}
    \cup {[risk |-> 1, maxw |-> w, file |-> WideFile] : w \in {Scale, Scale \div WideAssets}}

\* ------------------------------------------------------------- the state
VARIABLES
    risk_level,         \* form field, return units
    max_weight,         \* form field, weight units
    file,               \* the uploaded file
    pc,                 \* position of the handler
    returns_df,         \* pd.read_csv(...) of the upload
    mean_returns,       \* returns_df.mean()
    cov_matrix,         \* returns_df.cov()
    result,             \* what minimize(...) returned
    optimal_portfolio,  \* ordered map ticker -> rounded weight
    response,           \* the HTTP response of the request
    calls,              \* how often the estimator and the solver ran
    log                 \* logger records, oldest first

vars == <<risk_level, max_weight, file, pc, returns_df, mean_returns, cov_matrix,
          result, optimal_portfolio, response, calls, log>>

NoFrame == [columns |-> <<>>, rows |-> <<>>]

NoStats == <<>>

NoResult == [called |-> FALSE, success |-> FALSE, x |-> <<>>, message |-> ""]

NoResponse == [status |-> 0, detail |-> <<>>, body |-> <<>>]

\* raise HTTPException(status_code=status, detail=detail)
HTTPException(status, detail) == [status |-> status, detail |-> detail, body |-> <<>>]

\* return {"optimal_portfolio": portfolio}
Ok(portfolio) == [status |-> 200, detail |-> <<>>, body |-> portfolio]

\* str(e) of an HTTPException: "<status_code>: <detail>"
StrHTTPException(e) == <<ToString(e.status), ": ">> \o e.detail

\* `except Exception as e` of the handler: any exception that is neither a
\* ParserError nor a ValueError, an HTTPException raised in the try block
\* included, is logged and answered with a 500.
UnexpectedError(text) == HTTPException(500, <<"Error en el servidor: ">> \o text)

\* `except ValueError as e` of the handler
ValueErrorResponse(text) == HTTPException(400, text)

Init ==
    /\ \E q \in Requests :
          /\ risk_level = q.risk
          /\ max_weight = q.maxw
          /\ file = q.file
    /\ pc = "validate"
    /\ returns_df = NoFrame
    /\ mean_returns = NoStats
    /\ cov_matrix = NoStats
    /\ result = NoResult
    /\ optimal_portfolio = <<>>
    /\ response = NoResponse
    /\ calls = [estimate |-> 0, minimize |-> 0]
    /\ log = <<>>

\* Variant: the check written as `risk_level < 0`.
InvalidRiskLevel_strict(r) == r < 0

\* `risk_level <= 0`
InvalidRiskLevel(r) == r <= 0

\* `max_weight <= 0 or max_weight > 1`
InvalidMaxWeight(w) == w <= 0 \/ w > Scale

\* Lines 116-121: the two parameter checks, outside the try block.
ValidateParams ==
    /\ pc = "validate"
    /\ IF InvalidRiskLevel(risk_level)
       THEN /\ response' = HTTPException(400, <<"El nivel de riesgo debe ser positivo">>)
            /\ pc' = "done"
       ELSE IF InvalidMaxWeight(max_weight)
       THEN /\ response' = HTTPException(400, <<"El peso maximo debe estar entre 0 y 1">>)
            /\ pc' = "done"
       ELSE /\ response' = response
            /\ pc' = "read"
    /\ UNCHANGED <<risk_level, max_weight, file, returns_df, mean_returns, cov_matrix,
                   result, optimal_portfolio, calls, log>>

\* pd.read_csv(StringIO(content_str), index_col=0, parse_dates=True): a
\* column holding one unparsable token is read as strings throughout.
read_csv(f) ==
    LET cell(r, c) ==
            IF f.defect.kind = "text" /\ f.defect.col = c
            THEN IF f.defect.row = r THEN Special("text")
                 ELSE [k |-> "str", v |-> Pattern(f.dataset, c, r)]
            ELSE IF f.defect.row = r /\ f.defect.col \in {0, c}
            THEN Special(f.defect.kind)
            ELSE Num(Pattern(f.dataset, c, r))
    IN  [columns |-> [c \in 1..f.ncols |-> Ticker(c)],
         rows |-> [r \in 1..f.nrows |-> [c \in 1..f.ncols |-> cell(r, c)]]]

\* Lines 124-129 with the handlers of lines 147-150: decode and parse.
\* UnicodeDecodeError and EmptyDataError are ValueErrors.
ReadCsv ==
    /\ pc = "read"
    /\ CASE file.kind = "undecodable" ->
              /\ response' = ValueErrorResponse(<<"'utf-8' codec can't decode byte">>)
              /\ returns_df' = returns_df
              /\ pc' = "done"
         [] file.kind = "malformed" ->
              /\ response' = HTTPException(400, <<"Error al parsear el archivo CSV">>)
              /\ returns_df' = returns_df
              /\ pc' = "done"
         [] file.kind = "empty" ->
              /\ response' = ValueErrorResponse(<<"No columns to parse from file">>)
              /\ returns_df' = returns_df
              /\ pc' = "done"
         [] OTHER ->
              /\ response' = response
              /\ returns_df' = read_csv(file)
              /\ pc' = "check_numeric"
    /\ UNCHANGED <<risk_level, max_weight, file, mean_returns, cov_matrix,
                   result, optimal_portfolio, calls, log>>

\* np.isreal(cell): a float cell, NaN and +/-inf included, has no imaginary
\* part; a string cell is not real.
isreal(cell) == cell.k \in {"num", "nan", "inf"}

\* returns_df.applymap(np.isreal).all().all()
AllReal(df) ==
    \A r \in 1..Len(df.rows) : \A c \in 1..Len(df.columns) : isreal(df.rows[r][c])

\* Lines 131-133.  The HTTPException is raised inside the try block and is
\* caught by `except Exception` (lines 151-153).
CheckNumeric ==
    /\ pc = "check_numeric"
    /\ IF ~AllReal(returns_df)
       THEN LET e == HTTPException(400, <<"El archivo debe contener solo valores numericos">>)
            IN  /\ response' = UnexpectedError(StrHTTPException(e))
                /\ log' = Append(log, "error: Error inesperado")
                /\ pc' = "done"
       ELSE /\ response' = response
            /\ log' = log
            /\ pc' = "check_rows"
    /\ UNCHANGED <<risk_level, max_weight, file, returns_df, mean_returns, cov_matrix,
                   result, optimal_portfolio, calls>>

\* `len(returns_df) < 30` negated
EnoughRows(df) == Len(df.rows) >= MinRows

\* Lines 135-140, raised and caught like the numeric check.
CheckRows ==
    /\ pc = "check_rows"
    /\ IF ~EnoughRows(returns_df)
       THEN LET e == HTTPException(400, <<"Se requieren al menos 30 dias de datos, se recibieron ",
                                          ToString(Len(returns_df.rows))>>)
            IN  /\ response' = UnexpectedError(StrHTTPException(e))
                /\ log' = Append(log, "error: Error inesperado")
                /\ pc' = "done"
       ELSE /\ response' = response
            /\ log' = Append(log, "info: Optimizando portafolio")
            /\ pc' = "estimate"
    /\ UNCHANGED <<risk_level, max_weight, file, returns_df, mean_returns, cov_matrix,
                   result, optimal_portfolio, calls>>

\* ------------------------------------------------- statistics estimation
\* The values of a function on 1..n, all computed once.
Tuple(f, n) == SubSeq(f, 1, n)

\* Per column: the returns of its days, and whether the day holds a value
\* (an empty cell is NaN, which pandas skips).
ColumnValues(df) ==
    LET nr == Len(df.rows)
    IN  Tuple([c \in 1..Len(df.columns) |-> Tuple([r \in 1..nr |-> df.rows[r][c].v], nr)],
              Len(df.columns))

ColumnHolds(df) ==
    LET nr == Len(df.rows)
    IN  Tuple([c \in 1..Len(df.columns) |-> Tuple([r \in 1..nr |-> df.rows[r][c].k # "nan"], nr)],
              Len(df.columns))

ColumnHasInf(df) ==
    Tuple([c \in 1..Len(df.columns) |-> \E r \in 1..Len(df.rows) : df.rows[r][c].k = "inf"],
          Len(df.columns))

\* returns_df.mean(): arithmetic mean per column over the non-NaN cells,
\* as fractions num[c] / den; not finite if some cell is +/-inf.
mean(df) ==
    LET n    == Len(df.columns)
        nr   == Len(df.rows)
        val  == ColumnValues(df)
        hold == ColumnHolds(df)
        inf  == ColumnHasInf(df)
        cnt  == Tuple([c \in 1..n |-> SumTo([r \in 1..nr |-> IF hold[c][r] THEN 1 ELSE 0], nr)], n)
        sum  == Tuple([c \in 1..n |-> SumTo([r \in 1..nr |-> IF hold[c][r] THEN val[c][r] ELSE 0], nr)], n)
        den  == LcmTo([c \in 1..n |-> IF cnt[c] = 0 THEN 1 ELSE cnt[c]], n)
    IN  [num |-> Tuple([c \in 1..n |-> IF cnt[c] = 0 THEN 0 ELSE sum[c] * (den \div cnt[c])], n),
         den |-> den,
         finite |-> \A c \in 1..n : cnt[c] > 0 /\ ~inf[c]]

\* returns_df.cov(): sample covariance (denominator m - 1) of every pair of
\* columns over the m days both hold a value, as fractions num[i][j] / den.
cov(df) ==
    LET n    == Len(df.columns)
        nr   == Len(df.rows)
        val  == ColumnValues(df)
        hold == ColumnHolds(df)
        inf  == ColumnHasInf(df)
        pair(i, j) ==
            LET both == Tuple([r \in 1..nr |-> hold[i][r] /\ hold[j][r]], nr)
                m    == SumTo([r \in 1..nr |-> IF both[r] THEN 1 ELSE 0], nr)
                sx   == SumTo([r \in 1..nr |-> IF both[r] THEN val[i][r] ELSE 0], nr)
                sy   == SumTo([r \in 1..nr |-> IF both[r] THEN val[j][r] ELSE 0], nr)
                sxy  == SumTo([r \in 1..nr |-> IF both[r] THEN val[i][r] * val[j][r] ELSE 0], nr)
            IN  [num |-> m * sxy - sx * sy,
                 den |-> IF m < 2 THEN 1 ELSE m * (m - 1),
                 finite |-> m >= 2 /\ ~inf[i] /\ ~inf[j]]
        raw  == Tuple([i \in 1..n |-> Tuple([j \in 1..n |-> pair(i, j)], n)], n)
        den  == LcmTo([i \in 1..n |-> LcmTo([j \in 1..n |-> raw[i][j].den], n)], n)
    IN  [num |-> Tuple([i \in 1..n |->
                    Tuple([j \in 1..n |-> raw[i][j].num * (den \div raw[i][j].den)], n)], n),
         den |-> den,
         finite |-> \A i, j \in 1..n : raw[i][j].finite]

\* Lines 46-47 negated: np.sum(mean_returns * weights), the expected return
\* of the weights, as a numerator over mu.den * Scale.
expected_return(mu, weights) ==
    SumTo([i \in 1..Len(weights) |-> mu.num[i] * weights[i]], Len(weights))

\* Lines 46-47: the objective handed to the minimizer.
objective(mu, weights) == -expected_return(mu, weights)

\* Lines 50-52: the sign of risk_level - sqrt(w' cov w).  For risk >= 0 it
\* is the sign of risk^2 * den * Scale^2 - sum_ij num[i][j] W_i W_j, which
\* is computed exactly in limbs of base Limb to stay within 32 bits.
risk_constraint(sigma, risk, weights) ==
    LET n  == Len(weights)
        a  == Tuple([i \in 1..n |-> weights[i] \div Limb], n)
        b  == Tuple([i \in 1..n |-> weights[i] % Limb], n)
        GA == Tuple([i \in 1..n |-> SumTo([j \in 1..n |-> sigma.num[i][j] * a[j]], n)], n)
        GB == Tuple([i \in 1..n |-> SumTo([j \in 1..n |-> sigma.num[i][j] * b[j]], n)], n)
        g0 == [i \in 1..n |-> GB[i] % Limb]
        g1 == [i \in 1..n |-> GA[i] + (GB[i] \div Limb)]
        X0 == -SumTo([i \in 1..n |-> b[i] * g0[i]], n)
        X1 == -SumTo([i \in 1..n |-> a[i] * g0[i] + b[i] * g1[i]], n)
        X2 == risk * risk * sigma.den * (Scale \div Limb) * (Scale \div Limb)
              - SumTo([i \in 1..n |-> a[i] * g1[i]], n)
        d0 == X0 % Limb
        Y1 == X1 + (X0 \div Limb)
        d1 == Y1 % Limb
        top == X2 + (Y1 \div Limb)
    IN  IF top < 0 THEN -1
        ELSE IF top > 0 THEN 1
        ELSE IF d1 = 0 /\ d0 = 0 THEN 0 ELSE 1

\* Line 56: np.sum(x) - 1
sum_constraint(weights) == SumTo(weights, Len(weights)) - Scale

\* Variant: the bounds written as (0, 1) for every asset.
WithinBounds_unit(weights, maxw) == \A i \in 1..Len(weights) : 0 <= weights[i] /\ weights[i] <= Scale

\* Line 61: every weight within (0, max_weight)
WithinBounds(weights, maxw) == \A i \in 1..Len(weights) : 0 <= weights[i] /\ weights[i] <= maxw

\* Line 64: np.array([1/n_assets] * n_assets), clipped to the bounds as
\* SLSQP does with its starting point (1/n is floored to a weight unit).
initial_weights(n, maxw) == [i \in 1..n |-> Min(Scale \div n, maxw)]

\* ------------------------------------------------------------ the solver
\* scipy.optimize.minimize(method='SLSQP') is outside the repository.  It
\* is modelled by its contract: with success it returns a point that
\* satisfies the bounds and both constraints; without success it returns
\* its last iterate and one of its status messages.  Which feasible point,
\* and whether it succeeds at all, is left open.

SolverMessages ==
    {"Iteration limit reached",
     "Inequality constraints incompatible",
     "Positive directional derivative for linesearch"}

\* The weights tried as solver output: the values around the rounding and
\* filtering thresholds of the post-processing, the cap, and equal weights.
WeightGrid(n, maxw) ==
    {w \in {0, 1, Quantum \div 2, Quantum, Quantum + 2, Quantum + (Quantum \div 2),
            2 * Quantum, maxw - 1, maxw, Scale \div n} : 0 <= w /\ w <= maxw}

\* Number of leading weights chosen freely from the grid.
HeadLen(n) == IF n <= MaxAssets THEN n - 1 ELSE 1

\* Weight vectors that sum to one: a free head, a common weight for the
\* columns after it, and the remainder on the last column.
Candidates(n, maxw) ==
    LET h    == HeadLen(n)
        grid == WeightGrid(n, maxw)
        fill == IF n - 1 > h THEN grid ELSE {0}
        vec(head, bg) ==
            [i \in 1..n |->
                IF i = n THEN Scale - (SumTo(head, h) + bg * (n - 1 - h))
                ELSE IF i <= h THEN head[i] ELSE bg]
    IN  {vec(head, bg) : head \in [1..h -> grid], bg \in fill}

\* Variant: the risk constraint with its sign reversed (volatility minus
\* risk level handed to an 'ineq' constraint).
Feasible_reversed(mu, sigma, risk, maxw, n) ==
    {x \in Candidates(n, maxw) :
        /\ WithinBounds(x, maxw)
        /\ sum_constraint(x) = 0
        /\ (mu.finite /\ sigma.finite) => risk_constraint(sigma, risk, x) <= 0}

\* The points minimize may report with success = True.  With statistics that
\* are not finite the risk constraint evaluates to NaN and only the bounds
\* and the sum constraint can be relied on.
Feasible(mu, sigma, risk, maxw, n) ==
    {x \in Candidates(n, maxw) :
        /\ WithinBounds(x, maxw)
        /\ sum_constraint(x) = 0
        /\ (mu.finite /\ sigma.finite) => risk_constraint(sigma, risk, x) >= 0}

\* Lines 68-75: every result minimize can hand back.
minimize(mu, sigma, risk, maxw, n) ==
    {[called |-> TRUE, success |-> TRUE, x |-> x, message |-> "Optimization terminated successfully"] :
        x \in Feasible(mu, sigma, risk, maxw, n)}
    \cup
    {[called |-> TRUE, success |-> FALSE, x |-> initial_weights(n, maxw), message |-> msg] :
        msg \in SolverMessages}

\* ------------------------------------------------------- post-processing
\* Variant: np.round(w, 3), in units of 0.0001.
round4_three_decimals(w) ==
    LET q == w \div (10 * Quantum)
        r == w % (10 * Quantum)
    IN  IF r < 5 * Quantum THEN 10 * q
        ELSE IF r > 5 * Quantum THEN 10 * (q + 1)
        ELSE IF q % 2 = 0 THEN 10 * q ELSE 10 * (q + 1)

\* np.round(w, 4): to the nearest 0.0001, ties to the even neighbour.
round4(w) ==
    LET q == w \div Quantum
        r == w % Quantum
    IN  IF 2 * r < Quantum THEN q
        ELSE IF 2 * r > Quantum THEN q + 1
        ELSE IF q % 2 = 0 THEN q ELSE q + 1

\* Variant: the filter written as `weight >= 0.0001`.
Retained_at_least(weight) == weight >= MinWeight

\* Line 86: `if weight > 0.0001`, applied to the rounded weight.
Retained(weight) == weight > MinWeight

\* Lines 84-86: the dict comprehension, in column order.
make_portfolio(columns, x) ==
    LET Keep(e) == Retained(e.weight)
    IN  SelectSeq([i \in 1..Len(columns) |-> [ticker |-> columns[i], weight |-> round4(x[i])]],
                  Keep)

\* Line 89: sum(optimal_portfolio.values()), in units of 0.0001
weight_sum(portfolio) ==
    SumTo([i \in 1..Len(portfolio) |-> portfolio[i].weight], Len(portfolio))

\* Line 90: abs(weight_sum - 1.0) > 0.01
SumOff(portfolio) == Abs(weight_sum(portfolio) - (10 ^ Decimals)) > SumTolerance

\* Variant: a map whose sum is off is rescaled to sum to one.
checked_portfolio_renormalized(portfolio) ==
    IF SumOff(portfolio)
    THEN [i \in 1..Len(portfolio) |->
             [ticker |-> portfolio[i].ticker,
              weight |-> (portfolio[i].weight * (10 ^ Decimals)) \div weight_sum(portfolio)]]
    ELSE portfolio

\* Lines 88-93: the sum check only logs; the map is returned as it is.
checked_portfolio(portfolio) == portfolio

\* Variant: an exhausted iteration budget is taken for a result.
Converged_or_out_of_iterations(res) == res.success \/ res.message = "Iteration limit reached"

\* Line 77: `if not result.success` negated
Converged(res) == res.success

\* Lines 79 and 97: the ValueError raised for a failed solve, re-raised by
\* the function's own `except Exception`.
FailureText(res) ==
    <<"Failed to optimize portfolio: ", "Portfolio optimization did not converge: ", res.message>>

\* --------------------------------------------------- the rest of the handler
\* Lines 39-64: statistics, asset count, bounds and starting point.  With no
\* asset column 1/n_assets raises ZeroDivisionError outside the function's
\* try block, which the handler answers with a 500.
Estimate ==
    /\ pc = "estimate"
    /\ mean_returns' = mean(returns_df)
    /\ cov_matrix' = cov(returns_df)
    /\ calls' = [calls EXCEPT !.estimate = @ + 1]
    /\ IF Len(returns_df.columns) = 0
       THEN /\ response' = UnexpectedError(<<"division by zero">>)
            /\ log' = Append(log, "error: Error inesperado")
            /\ pc' = "done"
       ELSE /\ response' = response
            /\ log' = log
            /\ pc' = "solve"
    /\ UNCHANGED <<risk_level, max_weight, file, returns_df, result, optimal_portfolio>>

\* Lines 66-75: the one call of minimize.
Solve ==
    /\ pc = "solve"
    /\ result' \in minimize(mean_returns, cov_matrix, risk_level, max_weight,
                            Len(returns_df.columns))
    /\ calls' = [calls EXCEPT !.minimize = @ + 1]
    /\ pc' = "converged"
    /\ UNCHANGED <<risk_level, max_weight, file, returns_df, mean_returns, cov_matrix,
                   optimal_portfolio, response, log>>

\* Lines 77-79, 95-97 and 149-150: a solve without success is a ValueError,
\* wrapped once by the function and answered with a 400 by the handler.
CheckConverged ==
    /\ pc = "converged"
    /\ IF ~Converged(result)
       THEN /\ response' = ValueErrorResponse(FailureText(result))
            /\ log' = log \o <<"warning: Optimization failed", "error: Error in optimization">>
            /\ pc' = "done"
       ELSE /\ response' = response
            /\ log' = log
            /\ pc' = "postprocess"
    /\ UNCHANGED <<risk_level, max_weight, file, returns_df, mean_returns, cov_matrix,
                   result, optimal_portfolio, calls>>

\* Lines 81-86: round and filter.
PostProcess ==
    /\ pc = "postprocess"
    /\ optimal_portfolio' = make_portfolio(returns_df.columns, result.x)
    /\ pc' = "sum_check"
    /\ UNCHANGED <<risk_level, max_weight, file, returns_df, mean_returns, cov_matrix,
                   result, response, calls, log>>

\* Lines 88-93 and 145: the sum check and the return.
SumCheck ==
    /\ pc = "sum_check"
    /\ log' = IF SumOff(optimal_portfolio)
              THEN Append(log, "warning: Sum of weights is not close to 1")
              ELSE log
    /\ optimal_portfolio' = checked_portfolio(optimal_portfolio)
    /\ response' = Ok(optimal_portfolio')
    /\ pc' = "done"
    /\ UNCHANGED <<risk_level, max_weight, file, returns_df, mean_returns, cov_matrix,
                   result, calls>>

Next ==
    \/ ValidateParams
    \/ ReadCsv
    \/ CheckNumeric
    \/ CheckRows
    \/ Estimate
    \/ Solve
    \/ CheckConverged
    \/ PostProcess
    \/ SumCheck

Spec == Init /\ [][Next]_vars

\* ================================================================ claims
n_assets == Len(returns_df.columns)

Done == pc = "done"

Returned == pc = "done" /\ response.status = 200

ValidParams == risk_level > 0 /\ max_weight > 0 /\ max_weight <= Scale

\* The upload parses to a matrix of numbers, at least MinRows by 1.
ValidMatrix ==
    /\ file.kind = "csv"
    /\ file.defect.kind = "none"
    /\ file.nrows >= MinRows
    /\ file.ncols >= 1

\* k is w rounded to 4 decimals: nearest 0.0001, a tie going to the even one.
IsRounded(w, k) ==
    /\ 2 * Abs(k * Quantum - w) <= Quantum
    /\ 2 * Abs(k * Quantum - w) = Quantum => k % 2 = 0

Rounded(w) == CHOOSE k \in {w \div Quantum, (w \div Quantum) + 1} : IsRounded(w, k)

ColumnOf(ticker) == CHOOSE i \in 1..n_assets : returns_df.columns[i] = ticker

BodySum == SumTo([i \in 1..Len(response.body) |-> response.body[i].weight], Len(response.body))

\* The equal weighting 1/n.
EqualWeights == [i \in 1..n_assets |-> Scale \div n_assets]

DegenerateCap == n_assets >= 1 /\ n_assets * max_weight = Scale

\* ---- C1
\* C1 as stated: every portfolio returned for a valid matrix has all its
\* weights in [0, maxWeight] and a sum within 0.01 of 1.0.
C1_Feasibility ==
    (Returned /\ ValidMatrix) =>
        /\ \A i \in 1..Len(response.body) :
              /\ response.body[i].weight >= 0
              /\ response.body[i].weight * Quantum <= max_weight
        /\ Abs(BodySum - 10 ^ Decimals) <= SumTolerance

\* C1 amended: every portfolio returned for a valid matrix has all its
\* weights above 0.0001 and at most maxWeight + 0.00005, and a sum within
\* n * 0.00015 of 1.0, n being the number of assets.
C1_RoundedFeasibility ==
    (Returned /\ ValidMatrix) =>
        /\ \A i \in 1..Len(response.body) :
              /\ response.body[i].weight > MinWeight
              /\ 2 * response.body[i].weight * Quantum <= 2 * max_weight + Quantum
        /\ 2 * Abs(BodySum * Quantum - Scale) <= 3 * Quantum * n_assets

\* A portfolio was returned in which rounding lifted a weight above the cap.
C1_Witness ==
    /\ Returned
    /\ ValidMatrix
    /\ \E i \in 1..Len(response.body) : response.body[i].weight * Quantum > max_weight

\* ---- C2
\* C2 as stated: with n * maxWeight < 1 the request fails and minimize is
\* never invoked.
C2_InfeasibleBoundsRejected ==
    (ValidParams /\ ValidMatrix /\ file.ncols * max_weight < Scale) =>
        /\ calls.minimize = 0
        /\ Done => response.status >= 400

\* ---- C3
\* C3: the solver is invoked at most once, and a request whose solve did
\* not succeed ends in an error carrying the solver's message and returns
\* no weight map.
C3_NonConvergenceFails ==
    /\ calls.minimize <= 1
    /\ (result.called /\ ~result.success) => optimal_portfolio = <<>>
    /\ (Done /\ result.called /\ ~result.success) =>
          /\ response.status = 400
          /\ response.body = <<>>
          /\ \E k \in 1..Len(response.detail) : response.detail[k] = result.message

\* A request ended after a solve without success.
C3_Witness == Done /\ result.called /\ ~result.success

\* ---- C4
InvalidRequest ==
    \/ risk_level <= 0
    \/ max_weight <= 0
    \/ max_weight > Scale
    \/ file.kind = "csv" /\ file.defect.kind = "text"
    \/ file.kind = "csv" /\ file.nrows < MinRows

\* C4: a request with a parameter out of range, a non-numeric cell or too
\* few rows never reaches the estimator or the solver, and ends in an error.
C4_FailFast ==
    InvalidRequest =>
        /\ calls.estimate = 0
        /\ calls.minimize = 0
        /\ mean_returns = NoStats
        /\ cov_matrix = NoStats
        /\ ~result.called
        /\ pc \notin {"solve", "converged", "postprocess", "sum_check"}
        /\ Done => response.status >= 400

\* The 10-row matrix with valid parameters was rejected.
C4_Witness ==
    /\ Done
    /\ ValidParams
    /\ file.kind = "csv" /\ file.defect.kind = "none" /\ file.nrows = 10
    /\ Len(returns_df.rows) = 10
    /\ response.status >= 400

\* ---- C5
\* C5 as stated: the returned map holds exactly the assets whose rounded
\* weight is not below 0.0001.
C5_KeepsThreshold ==
    (Returned /\ ValidMatrix) =>
        \A i \in 1..n_assets :
            (Rounded(result.x[i]) >= MinWeight) <=>
                (\E p \in 1..Len(response.body) : response.body[p].ticker = returns_df.columns[i])

\* C5 amended: the returned map holds exactly the assets whose rounded
\* weight is above 0.0001, each with its rounded weight, in column order.
C5_FilterAboveThreshold ==
    Returned =>
        /\ \A i \in 1..n_assets :
              (Rounded(result.x[i]) > MinWeight) <=>
                  (\E p \in 1..Len(response.body) : response.body[p].ticker = returns_df.columns[i])
        /\ \A p \in 1..Len(response.body) :
              /\ response.body[p].ticker \in {returns_df.columns[i] : i \in 1..n_assets}
              /\ IsRounded(result.x[ColumnOf(response.body[p].ticker)], response.body[p].weight)
        /\ \A p, q \in 1..Len(response.body) :
              p < q => ColumnOf(response.body[p].ticker) < ColumnOf(response.body[q].ticker)

\* A map was returned that kept one asset and dropped one whose rounded
\* weight is exactly 0.0001.
C5_Witness ==
    /\ Returned
    /\ Len(response.body) >= 1
    /\ \E i \in 1..n_assets : Rounded(result.x[i]) = MinWeight

\* ---- C6
\* C6: the sum check returns the map exactly as it was computed before the
\* check, every value being the solver weight of its asset rounded to 4
\* decimals, also when the sum is off by more than 0.01.
C6_SumCheckKeepsMap ==
    [][pc = "sum_check" =>
          /\ pc' = "done"
          /\ response'.status = 200
          /\ response'.body = optimal_portfolio
          /\ optimal_portfolio' = optimal_portfolio
          /\ \A p \in 1..Len(response'.body) :
                IsRounded(result.x[ColumnOf(response'.body[p].ticker)], response'.body[p].weight)]_vars

\* A map was returned whose sum is off by more than 0.01, with the warning.
C6_Witness ==
    /\ Returned
    /\ Abs(BodySum - 10 ^ Decimals) > SumTolerance
    /\ \E k \in 1..Len(log) : log[k] = "warning: Sum of weights is not close to 1"

\* ---- C7
\* C7 as stated, for a risk level below the volatility of the equal
\* weighting: with maxWeight = 1/n the request returns the equal weighting.
C7_DegenerateCapReturnsEqual ==
    (Done /\ ValidParams /\ ValidMatrix /\ DegenerateCap
          /\ risk_constraint(cov_matrix, risk_level, EqualWeights) < 0) =>
        /\ response.status = 200
        /\ Len(response.body) = n_assets
        /\ \A p \in 1..Len(response.body) : IsRounded(Scale \div n_assets, response.body[p].weight)

\* C7 amended: with maxWeight = 1/n a successful solve yields the equal
\* weighting and the returned map is that weighting rounded and filtered;
\* with a risk level below its volatility the request fails with a 400.
C7_DegenerateCap ==
    (ValidParams /\ ValidMatrix /\ DegenerateCap) =>
        /\ (result.called /\ result.success) => result.x = EqualWeights
        /\ Returned =>
              /\ \A p \in 1..Len(response.body) :
                    IsRounded(Scale \div n_assets, response.body[p].weight)
              /\ Len(response.body) =
                    (IF Rounded(Scale \div n_assets) > MinWeight THEN n_assets ELSE 0)
        /\ (Done /\ risk_constraint(cov_matrix, risk_level, EqualWeights) < 0) =>
              /\ response.status = 400
              /\ result.called /\ ~result.success

\* The equal weighting of two or more assets was returned under the cap 1/n.
C7_Witness ==
    /\ Returned
    /\ ValidMatrix
    /\ DegenerateCap
    /\ n_assets >= 2
    /\ Len(response.body) = n_assets

\* ---- C8
\* C8 as stated: a matrix with a text, NaN or infinite cell never reaches
\* the solver and its request ends in an error.
C8_NonFiniteRejected ==
    (file.kind = "csv" /\ file.defect.kind \in {"text", "nan", "inf"}) =>
        /\ calls.minimize = 0
        /\ Done => response.status >= 400

\* ---- C9
FeasibleAt(r) == Feasible(mean_returns, cov_matrix, r, max_weight, n_assets)

\* The largest expected return over a non-empty set of weight vectors.
BestReturn(F) ==
    LET vals == {expected_return(mean_returns, x) : x \in F}
    IN  CHOOSE v \in vals : \A u \in vals : u <= v

\* C9: for r1 <= r2 the weight vectors feasible at r1 are feasible at r2,
\* and the best expected return at r2 is not below the one at r1.
C9_Monotone ==
    (pc = "solve" /\ mean_returns.finite /\ cov_matrix.finite) =>
        \A r2 \in {r \in RiskLevels : r >= risk_level} :
            FeasibleAt(risk_level) # {} =>
                /\ FeasibleAt(risk_level) \subseteq FeasibleAt(r2)
                /\ BestReturn(FeasibleAt(r2)) >= BestReturn(FeasibleAt(risk_level))

\* A larger risk level admits more weight vectors and a better return.
C9_Witness ==
    /\ pc = "solve"
    /\ mean_returns.finite /\ cov_matrix.finite
    /\ \E r2 \in {r \in RiskLevels : r > risk_level} :
          /\ FeasibleAt(risk_level) # {}
          /\ FeasibleAt(risk_level) # FeasibleAt(r2)
          /\ BestReturn(FeasibleAt(r2)) > BestReturn(FeasibleAt(risk_level))

\* ---- C10
\* C10 as stated: a failure caused by the client's input is answered with a
\* 400 whose detail is the message of the raise site.
C10_ClientErrorsAre400 ==
    /\ (Done /\ ValidParams /\ file.kind = "csv" /\ file.defect.kind = "text") =>
          response = HTTPException(400, <<"El archivo debe contener solo valores numericos">>)
    /\ (Done /\ ValidParams /\ file.kind = "csv" /\ file.defect.kind # "text"
             /\ file.nrows < MinRows) =>
          response = HTTPException(400, <<"Se requieren al menos 30 dias de datos, se recibieron ",
                                          ToString(file.nrows)>>)
    /\ (Done /\ result.called /\ ~result.success) => response.status = 400
    /\ (Done /\ ~ValidParams) => response.status = 400
    /\ (Done /\ file.kind # "csv" /\ ValidParams) => response.status = 400

====
